---- MODULE Spec2Model ----
(***************************************************************************)
(* Verification model of the GP1 ray tracer (source/Renderer.cpp,          *)
(* source/Utils.h, source/Matrix.cpp, source/Material.h).                  *)
(*                                                                         *)
(* Four specifications share this module:                                  *)
(*   SchedSpec - Renderer::Render: the parallel_for over pixel indices,    *)
(*               the framebuffer write of RenderPixel and the surface      *)
(*               update that ends the pass.                                *)
(*   PixelSpec - Renderer::RenderPixel: the bounce loop of one pixel, one  *)
(*               step per scene query / light / loop tail.                 *)
(*   MathSpec  - the pure functions (Matrix::CreateTranslation,            *)
(*               Matrix::TransformPoint, HitTest_Sphere, GetRadiance)      *)
(*               applied to inputs drawn from bounded sets.                *)
(*   ModeSpec  - Renderer::CycleLightingMode called again and again.       *)
(*                                                                         *)
(* Floating point values are modelled by exact integers (or integers over  *)
(* a fixed denominator); rounding is not modelled.                         *)
(***************************************************************************)
EXTENDS Integers, Sequences, FiniteSets, TLC

VARIABLES
    \* ---- Renderer::Render (scheduler) ----
    m_Width,        \* Renderer::m_Width
    m_Height,       \* Renderer::m_Height
    renderPC,       \* position of Render: "idle", "running", "presented", "aborted"
    pending,        \* indices of the parallel_for range not yet handed to a worker
    wk,             \* per worker: position and the pixel it is rendering
    invoked,        \* per pixel index: number of RenderPixel calls in this pass
    writers,        \* per framebuffer cell: pixel indices that wrote it in this pass
    \* ---- build configuration ----
    ndebug,         \* TRUE when the build defines NDEBUG (assert compiles to nothing)
    \* ---- pure functions (MathSpec) ----
    mathFn,         \* the function applied last ("none" before the first)
    mathArg,        \* its arguments
    mathRes,        \* its result
    \* ---- Renderer::RenderPixel (one pixel) ----
    m_Bounces,              \* Renderer::m_Bounces
    m_ShadowsEnabled,       \* Renderer::m_ShadowsEnabled
    m_ReflectionsEnabled,   \* Renderer::m_ReflectionsEnabled
    m_CurrentLightingMode,  \* Renderer::m_CurrentLightingMode
    lights,         \* pScene->GetLights()
    pixelPC,        \* position in RenderPixel: "query", "light", "tail", "write", "done", "aborted"
    bounce,         \* the loop counter
    lightIdx,       \* position of the range-for over lights
    closestHit,     \* HitRecord of the current iteration
    finalColor,     \* ColorRGB, in units of 1/ColorDen
    reflectivity,   \* float, in units of 1/ReflDen
    multiplier,     \* float, num / 10^exp
    viewRay,        \* Ray: origin (point plus a multiple of the 0.0001 offset), direction
    missed,         \* the last closest-hit query of this (unchanged) ray found nothing
    ev,             \* the last light evaluated: what the scene and material answered
    nQuery,         \* number of GetClosestHit calls made for the pixel
    nSky,           \* number of times the sky color was added
    nQueryAfterMiss,\* number of GetClosestHit calls made after a miss
    written,        \* the 8-bit channels written to the framebuffer cell
    \* ---- Renderer::CycleLightingMode ----
    modeLog         \* the lighting mode at the start and after each call since

schedVars == <<m_Width, m_Height, renderPC, pending, wk, invoked, writers>>
mathVars  == <<mathFn, mathArg, mathRes>>
pixelCfg  == <<m_Bounces, m_ShadowsEnabled, m_ReflectionsEnabled, m_CurrentLightingMode, lights>>
pixelVars == <<pixelCfg, pixelPC, bounce, lightIdx, closestHit, finalColor, reflectivity,
               multiplier, viewRay, missed, ev, nQuery, nSky, nQueryAfterMiss, written>>

\* ---------------------------------------------------------------------------
\* Bounds
\* ---------------------------------------------------------------------------
MaxWidth   == 2
MaxHeight  == 2
NumWorkers == 2

Workers  == 1..NumWorkers
MaxCells == MaxWidth * MaxHeight
\* indices and cells that the model can represent (one past the largest frame,
\* so that an out-of-range call or write is visible)
IndexDom == 0..MaxCells

\* ---------------------------------------------------------------------------
\* The parts of the state a specification does not use stay at these values
\* ---------------------------------------------------------------------------
SchedAtRest ==
    /\ m_Width = 1 /\ m_Height = 1 /\ renderPC = "idle" /\ pending = {}
    /\ wk = [w \in Workers |-> [pc |-> "idle", pixelIndex |-> 0, px |-> 0, py |-> 0]]
    /\ invoked = [i \in IndexDom |-> 0]
    /\ writers = [c \in IndexDom |-> {}]

MathAtRest ==
    /\ mathFn = "none" /\ mathArg = <<>> /\ mathRes = <<>>

PixelAtRest ==
    /\ m_Bounces = 0 /\ m_ShadowsEnabled = FALSE /\ m_ReflectionsEnabled = FALSE
    /\ m_CurrentLightingMode = "Combined" /\ lights = <<>>
    /\ pixelPC = "done" /\ bounce = 0 /\ lightIdx = 0 /\ closestHit = <<>>
    /\ finalColor = <<0, 0, 0>> /\ reflectivity = 0 /\ multiplier = <<>>
    /\ viewRay = <<>> /\ missed = FALSE /\ ev = <<>>
    /\ nQuery = 0 /\ nSky = 0 /\ nQueryAfterMiss = 0 /\ written = <<>>

ModeAtRest == modeLog = <<>>

\* ---------------------------------------------------------------------------
\* Renderer::Render
\* ---------------------------------------------------------------------------
\* const uint32_t numPixels = m_Width * m_Height;
\* (window sizes are far below the 32-bit range, so no wrap-around is modelled)
NumPixels(w, h) == w * h

\* uint32_t px{ pixelIndex % m_Width };
PixelX(pixelIndex, w) == pixelIndex % w

\* uint32_t py{ pixelIndex / m_Width };
PixelY(pixelIndex, w) == pixelIndex \div w

\* faulty variant: row and column swapped in the cell address
CellIndex_Transposed(px, py, w) == py + (px * w)

\* m_pBufferPixels[px + (py * m_Width)]
CellIndex(px, py, w) == px + (py * w)

IdleWorker == [pc |-> "idle", pixelIndex |-> 0, px |-> 0, py |-> 0]

\* faulty variant: the end of the range is included
ParallelForRange_Inclusive(first, last) == {i \in IndexDom : first <= i /\ i <= last}

\* concurrency::parallel_for((uint32_t)0, numPixels, body): the indices the
\* body is to be called with
ParallelForRange(first, last) == {i \in IndexDom : first <= i /\ i < last}

\* faulty variant: the call returns as soon as every index has been handed out
ParallelForDone_NoJoin == pending = {}

\* concurrency::parallel_for returns only when the whole range has been
\* iterated: no index is left and no worker is inside the body.
ParallelForDone ==
    /\ pending = {}
    /\ \A w \in Workers : wk[w].pc = "idle"

SchedInit ==
    /\ m_Width \in 1..MaxWidth
    /\ m_Height \in 1..MaxHeight
    /\ renderPC = "idle"
    /\ pending = {}
    /\ wk = [w \in Workers |-> IdleWorker]
    /\ invoked = [i \in IndexDom |-> 0]
    /\ writers = [c \in IndexDom |-> {}]
    /\ ndebug \in BOOLEAN
    /\ MathAtRest
    /\ PixelAtRest
    /\ ModeAtRest

\* Render up to the call of parallel_for((uint32_t)0, numPixels, ...)
RenderStart ==
    /\ renderPC \in {"idle", "presented"}
    /\ renderPC' = "running"
    /\ pending' = ParallelForRange(0, NumPixels(m_Width, m_Height))
    /\ invoked' = [i \in IndexDom |-> 0]
    /\ writers' = [c \in IndexDom |-> {}]
    /\ UNCHANGED <<m_Width, m_Height, wk, ndebug, mathVars, pixelVars, modeLog>>

\* a worker of parallel_for calls the lambda with an index of the range, which
\* calls RenderPixel(pScene, pixelIndex, ...): px and py are computed
BeginPixel(w) ==
    /\ renderPC = "running"
    /\ wk[w].pc = "idle"
    /\ \E pixelIndex \in pending :
          /\ pending' = pending \ {pixelIndex}
          /\ invoked' = [invoked EXCEPT ![pixelIndex] = @ + 1]
          /\ wk' = [wk EXCEPT ![w] = [pc |-> "pixel", pixelIndex |-> pixelIndex,
                                      px |-> PixelX(pixelIndex, m_Width),
                                      py |-> PixelY(pixelIndex, m_Width)]]
    /\ UNCHANGED <<m_Width, m_Height, renderPC, writers, ndebug, mathVars, pixelVars, modeLog>>

\* RenderPixel ends: m_pBufferPixels[px + (py * m_Width)] = SDL_MapRGB(...)
WritePixel(w) ==
    /\ renderPC = "running"
    /\ wk[w].pc = "pixel"
    /\ LET cell == CellIndex(wk[w].px, wk[w].py, m_Width) IN
          writers' = [writers EXCEPT ![cell] = @ \cup {wk[w].pixelIndex}]
    /\ wk' = [wk EXCEPT ![w] = IdleWorker]
    /\ UNCHANGED <<m_Width, m_Height, renderPC, pending, invoked, ndebug, mathVars, pixelVars, modeLog>>

\* inside RenderPixel the assert of LightUtils::GetRadiance fails (a build
\* with asserts, a pixel with a light to evaluate): the process aborts
AssertFails(w) ==
    /\ ~ndebug
    /\ renderPC = "running"
    /\ wk[w].pc = "pixel"
    /\ renderPC' = "aborted"
    /\ UNCHANGED <<m_Width, m_Height, pending, wk, invoked, writers, ndebug, mathVars, pixelVars, modeLog>>

\* SDL_UpdateWindowSurface(m_pWindow), reached when parallel_for has returned
Present ==
    /\ renderPC = "running"
    /\ ParallelForDone
    /\ renderPC' = "presented"
    /\ UNCHANGED <<m_Width, m_Height, pending, wk, invoked, writers, ndebug, mathVars, pixelVars, modeLog>>

SchedNext ==
    \/ RenderStart
    \/ \E w \in Workers : BeginPixel(w)
    \/ \E w \in Workers : WritePixel(w)
    \/ \E w \in Workers : AssertFails(w)
    \/ Present

\* ---------------------------------------------------------------------------
\* Vector3 / Vector4 / ColorRGB arithmetic (exact)
\* ---------------------------------------------------------------------------
Vec3Add(a, b)   == <<a[1] + b[1], a[2] + b[2], a[3] + b[3]>>
Vec3Sub(a, b)   == <<a[1] - b[1], a[2] - b[2], a[3] - b[3]>>
Vec3Scale(v, k) == <<v[1] * k, v[2] * k, v[3] * k>>
Vec3Neg(v)      == <<0 - v[1], 0 - v[2], 0 - v[3]>>
Dot(a, b)       == a[1] * b[1] + a[2] * b[2] + a[3] * b[3]
Vec4Scale(v, k) == <<v[1] * k, v[2] * k, v[3] * k, v[4] * k>>
Square(a)       == a * a

UnitX == <<1, 0, 0>>
UnitY == <<0, 1, 0>>
UnitZ == <<0, 0, 1>>

\* the largest root the model needs
MaxRoot == 12

\* sqrtf on the values the model feeds it: perfect squares have their exact
\* root, a negative argument gives NaN; other arguments are kept out of the
\* inputs (HasExactRoot)
HasExactRoot(n) == n < 0 \/ \E k \in 0..MaxRoot : k * k = n
\* (NaN is represented by -1: a root is never negative)
IsNaN(x)        == x < 0
Sqrtf(n)        == IF n < 0 THEN 0 - 1 ELSE CHOOSE k \in 0..MaxRoot : k * k = n

\* Vector3::Magnitude on vectors of integral length
Magnitude(v) == Sqrtf(Dot(v, v))

\* Vector3::Normalized: the unit vector v / |v|, kept as numerator and denominator
Normalized(v) == [num |-> v, den |-> Magnitude(v)]

\* ---------------------------------------------------------------------------
\* Matrix (source/Matrix.cpp): data[0..3] are data[1..4] here
\* ---------------------------------------------------------------------------
\* Matrix::Matrix(const Vector4& xAxis, yAxis, zAxis, t)
MatrixFromVector4(xAxis, yAxis, zAxis, t) == <<xAxis, yAxis, zAxis, t>>

\* Matrix::Matrix(const Vector3& xAxis, yAxis, zAxis, t):
\*     Matrix({ xAxis, 0 }, { yAxis, 0 }, { zAxis, 0 }, { t, 1 })
MatrixFromVector3(xAxis, yAxis, zAxis, t) ==
    MatrixFromVector4(xAxis \o <<0>>, yAxis \o <<0>>, zAxis \o <<0>>, t \o <<1>>)

\* Matrix::TransformPoint(float x, float y, float z)
TransformPointXYZ(data, x, y, z) ==
    LET d0 == Vec4Scale(data[1], x)
        d1 == Vec4Scale(data[2], y)
        d2 == Vec4Scale(data[3], z)
    IN  << d0[1] + d1[1] + d2[1] + data[4][1],
           d0[2] + d1[2] + d2[2] + data[4][2],
           d0[3] + d1[3] + d2[3] + data[4][3] >>

\* Matrix::TransformPoint(const Vector3& p)
TransformPoint(data, p) == TransformPointXYZ(data, p[1], p[2], p[3])

\* Matrix::CreateTranslation(float x, float y, float z)
CreateTranslationXYZ(x, y, z) ==
    MatrixFromVector4(<<1, 0, 0, x>>, <<0, 1, 0, y>>, <<0, 0, 1, z>>, <<0, 0, 0, 1>>)

\* Matrix::CreateTranslation(const Vector3& t)
CreateTranslation(t) == MatrixFromVector3(UnitX, UnitY, UnitZ, t)

\* ---------------------------------------------------------------------------
\* GeometryUtils::HitTest_Sphere (source/Utils.h)
\* ---------------------------------------------------------------------------
\* ray.min is a multiple of 1/RayMinDen (the default of a Ray is one unit, a
\* shadow ray has 0); ray.max is a distance or FLT_MAX (inf)
RayMinDen == 10000
TInterval(ray, t) ==
    /\ t * RayMinDen >= ray.min
    /\ (ray.max.inf \/ t <= ray.max.v)

NoHit == [didHit |-> FALSE, materialIndex |-> 0, normal |-> [num |-> <<0, 0, 0>>, den |-> 1],
          origin |-> <<0, 0, 0>>, t |-> 0]

\* HitTest_Sphere(sphere, ray, hitRecord, ignoreHitRecord): the value returned
\* and the hit record left behind (hitRecord starts as HitRecord{})
HitTest_Sphere(sphere, ray, ignoreHitRecord) ==
    LET tc    == Vec3Sub(sphere.origin, ray.origin)
        dp    == Dot(tc, ray.direction)
        \* Square(tcl) with tcl = tc.Magnitude() is |tc|^2
        odSqr == Dot(tc, tc) - Square(dp)
        tca   == Sqrtf(Square(sphere.radius) - odSqr)
        ti1   == dp - tca
    IN  IF ~IsNaN(tca) /\ TInterval(ray, ti1)
          THEN IF ignoreHitRecord
                 THEN [ret |-> TRUE, hitRecord |-> NoHit]
                 ELSE LET pointI1 == Vec3Add(ray.origin, Vec3Scale(ray.direction, ti1))
                      IN  [ret |-> TRUE,
                           hitRecord |->
                             [didHit |-> TRUE,
                              materialIndex |-> sphere.materialIndex,
                              normal |-> Normalized(Vec3Sub(sphere.origin, pointI1)),
                              origin |-> ray.origin,
                              t |-> ti1]]
          ELSE [ret |-> FALSE, hitRecord |-> NoHit]

\* HitTest_Plane(plane, ray, hitRecord, ignoreHitRecord); the quotient t is
\* taken where it is exact, and a zero denominator gives an infinite or NaN t
\* that is outside every interval
HitTest_Plane(plane, ray, ignoreHitRecord) ==
    LET num == Dot(Vec3Sub(plane.origin, ray.origin), plane.normal)
        den == Dot(ray.direction, plane.normal)
        t   == IF den < 0 THEN (0 - num) \div (0 - den) ELSE num \div den
    IN  IF den # 0 /\ TInterval(ray, t)
          THEN IF ignoreHitRecord
                 THEN [ret |-> TRUE, hitRecord |-> NoHit]
                 ELSE [ret |-> TRUE,
                       hitRecord |->
                         [didHit |-> TRUE,
                          materialIndex |-> plane.materialIndex,
                          normal |-> [num |-> plane.normal, den |-> 1],
                          origin |-> ray.origin,
                          t |-> t]]
          ELSE [ret |-> FALSE, hitRecord |-> NoHit]

\* ---------------------------------------------------------------------------
\* LightUtils (source/Utils.h)
\* ---------------------------------------------------------------------------
Black == <<0, 0, 0>>
White == <<1, 1, 1>>

\* LightUtils::GetRadiance: assert(false && "No Implemented Yet!"); return {};
\* with asserts compiled in the call aborts the process, without them it
\* returns ColorRGB{}
GetRadiance(light, target) ==
    IF ndebug THEN [aborted |-> FALSE, value |-> Black]
              ELSE [aborted |-> TRUE, value |-> Black]

\* LightUtils::GetDirectionToLight: vec, or vec * FLT_MAX when fltMax is set
GetDirectionToLight(light, origin) ==
    IF light.type = "Point"
      THEN [vec |-> Vec3Sub(light.origin, origin), fltMax |-> FALSE]
      ELSE [vec |-> Vec3Neg(light.direction), fltMax |-> TRUE]

\* the shadow ray of RenderPixel for `light` at closestHit (hitRecord here):
\*     directionToLight = GetDirectionToLight(light, closestHit.origin)
\*     lightDistance    = directionToLight.Normalize()
\*     lightRay = { closestHit.origin + closestHit.normal * 0.0001f,
\*                  directionToLight, 0.0f, lightDistance }
\* and the target handed to GetRadiance.  The origin of the ray is p plus
\* 0.0001 times `normal`; a length of FLT_MAX counts as unbounded.
LightRay(hitRecord, light) ==
    LET toLight       == GetDirectionToLight(light, hitRecord.origin)
        lightDistance == IF toLight.fltMax
                           THEN [inf |-> TRUE, v |-> 0]
                           ELSE [inf |-> FALSE, v |-> Magnitude(toLight.vec)]
    IN  [origin |-> [p |-> hitRecord.origin, normal |-> hitRecord.normal],
         direction |-> Normalized(toLight.vec),
         min |-> 0,
         max |-> lightDistance,
         radianceTarget |-> hitRecord.origin]

\* ---------------------------------------------------------------------------
\* MathSpec: the pure functions applied to bounded inputs (each behaviour
\* applies one function to one input)
\* ---------------------------------------------------------------------------
MaxCoord == 1
MaxDist  == 7

Coords  == (0 - MaxCoord)..MaxCoord
Points  == Coords \X Coords \X Coords
AxisDirections == {UnitX, Vec3Neg(UnitX), UnitY, Vec3Neg(UnitY), UnitZ, Vec3Neg(UnitZ)}

\* spheres and rays on which sqrtf is exact: radii 1, 2 and 5, ray origins at
\* perpendicular offsets 0, 3 and 4 from the axis through the centre
SphereInputs ==
    [origin : {<<0, 0, 0>>, <<1, 0, -1>>}, radius : {1, 2, 5}, materialIndex : {0, 1}]
RayOrigins ==
    {<<x, 0, z>> : x \in {0, 3, 4}, z \in (0 - MaxDist)..MaxDist}
        \cup {<<0, y, 0>> : y \in 1..MaxDist}
RayInputs ==
    [origin : RayOrigins, direction : AxisDirections, min : {0, 1},
     max : {[inf |-> TRUE, v |-> 0], [inf |-> FALSE, v |-> 2]}]
SqrtExactOn(sphere, ray) ==
    LET tc == Vec3Sub(sphere.origin, ray.origin)
    IN  HasExactRoot(Square(sphere.radius) - (Dot(tc, tc) - Square(Dot(tc, ray.direction))))

LightInputs ==
    [type : {"Point", "Directional"}, origin : {<<0, 2, 0>>, <<1, 1, 1>>},
     direction : {Vec3Neg(UnitY)}, color : {White, <<1, 0, 0>>}, intensity : {1, 2}]

\* planes with axis normals, and the hit tests of both primitives by kind
PlaneInputs ==
    [origin : {<<0, 0, 0>>, <<0, -1, 0>>}, normal : {UnitY, UnitZ}, materialIndex : {0}]
ShapeInputs ==
    {[kind |-> "Sphere", shape |-> sh] : sh \in SphereInputs}
        \cup {[kind |-> "Plane", shape |-> sh] : sh \in PlaneInputs}
HitTest(shape, ray) ==
    IF shape.kind = "Sphere"
      THEN HitTest_Sphere(shape.shape, ray, FALSE)
      ELSE HitTest_Plane(shape.shape, ray, FALSE)
\* view rays: Ray{ origin, direction } has the default interval
ViewRayInputs == {ray \in RayInputs : ray.min = 1 /\ ray.max.inf}

MathInit ==
    /\ ndebug \in BOOLEAN
    /\ mathFn = "none"
    /\ mathArg = <<>>
    /\ mathRes = <<>>
    /\ SchedAtRest
    /\ PixelAtRest
    /\ ModeAtRest

ApplyCreateTranslationXYZ ==
    /\ mathFn = "none"
    /\ \E t \in Points, p \in Points :
          /\ mathArg' = [t |-> t, p |-> p]
          /\ mathRes' = TransformPoint(CreateTranslationXYZ(t[1], t[2], t[3]), p)
    /\ mathFn' = "CreateTranslationXYZ"
    /\ UNCHANGED <<ndebug, schedVars, pixelVars, modeLog>>

ApplyCreateTranslation ==
    /\ mathFn = "none"
    /\ \E t \in Points, p \in Points :
          /\ mathArg' = [t |-> t, p |-> p]
          /\ mathRes' = TransformPoint(CreateTranslation(t), p)
    /\ mathFn' = "CreateTranslation"
    /\ UNCHANGED <<ndebug, schedVars, pixelVars, modeLog>>

ApplyHitTest_Sphere ==
    /\ mathFn = "none"
    /\ \E sphere \in SphereInputs, ray \in RayInputs, ignoreHitRecord \in BOOLEAN :
          /\ SqrtExactOn(sphere, ray)
          /\ mathArg' = [sphere |-> sphere, ray |-> ray, ignoreHitRecord |-> ignoreHitRecord]
          /\ mathRes' = HitTest_Sphere(sphere, ray, ignoreHitRecord)
    /\ mathFn' = "HitTest_Sphere"
    /\ UNCHANGED <<ndebug, schedVars, pixelVars, modeLog>>

ApplyGetRadiance ==
    /\ mathFn = "none"
    /\ \E light \in LightInputs, target \in Points :
          /\ mathArg' = [light |-> light, target |-> target]
          /\ mathRes' = GetRadiance(light, target)
    /\ mathFn' = "GetRadiance"
    /\ UNCHANGED <<ndebug, schedVars, pixelVars, modeLog>>

\* a view ray hits a primitive and the shadow ray towards a light is built
ApplyLightRay ==
    /\ mathFn = "none"
    /\ \E shape \in ShapeInputs, ray \in ViewRayInputs, light \in LightInputs :
          /\ shape.kind = "Sphere" => SqrtExactOn(shape.shape, ray)
          /\ HitTest(shape, ray).ret
          /\ LET vec == GetDirectionToLight(light, ray.origin).vec
             IN  Dot(vec, vec) > 0 /\ HasExactRoot(Dot(vec, vec))
          /\ mathArg' = [shape |-> shape, ray |-> ray, light |-> light]
          /\ mathRes' = [closestHit |-> HitTest(shape, ray).hitRecord,
                         lightRay |-> LightRay(HitTest(shape, ray).hitRecord, light)]
    /\ mathFn' = "LightRay"
    /\ UNCHANGED <<ndebug, schedVars, pixelVars, modeLog>>

MathNext ==
    \/ ApplyLightRay
    \/ ApplyCreateTranslationXYZ
    \/ ApplyCreateTranslation
    \/ ApplyHitTest_Sphere
    \/ ApplyGetRadiance

\* ---------------------------------------------------------------------------
\* Renderer::RenderPixel: the bounce loop of one pixel (PixelSpec)
\* ---------------------------------------------------------------------------
MaxBounces == 3
MaxLights  == 2
MaxT       == 1

\* reflectivity is a multiple of 1/ReflDen (roughness in tenths, metalness 0 or 1)
ReflDen == 10

RECURSIVE Pow10(_)
Pow10(n) == IF n <= 0 THEN 1 ELSE 10 * Pow10(n - 1)

RECURSIVE Pow7(_)
Pow7(n) == IF n <= 0 THEN 1 ELSE 7 * Pow7(n - 1)

\* faulty variant: the multiplier is not shrunk
MultiplierDecay_None(mult) == mult

\* multiplier *= 0.7f
MultiplierDecay(mult) == [num |-> mult.num * 7, exp |-> mult.exp + 1]

\* colors are integers over ColorDen, fine enough for
\* reflectivity * multiplier after MaxBounces bounces
ColorDen == ReflDen * Pow10(MaxBounces)

ColorAdd(a, b)   == <<a[1] + b[1], a[2] + b[2], a[3] + b[3]>>
ColorMul(a, b)   == <<a[1] * b[1], a[2] * b[2], a[3] * b[3]>>
ColorScale(c, k) == <<c[1] * k, c[2] * k, c[3] * k>>

LightingModes == {"ObservedArea", "Radiance", "BRDF", "Combined"}

\* the materials of the scene: Lambert (the base GetReflectivity), a smooth
\* metal, a rough metal and a dielectric Cook-Torrance material
Materials ==
    << [kind |-> "Lambert",      metalness |-> 0, roughness10 |-> 10],
       [kind |-> "CookTorrence", metalness |-> 1, roughness10 |-> 1],
       [kind |-> "CookTorrence", metalness |-> 1, roughness10 |-> 10],
       [kind |-> "CookTorrence", metalness |-> 0, roughness10 |-> 1] >>

\* Material::GetReflectivity (0.0f) and Material_CookTorrence::GetReflectivity
\* ((1.0f - m_Roughness) * m_Metalness), in units of 1/ReflDen
GetReflectivity(material) ==
    IF material.kind = "CookTorrence"
      THEN (10 - material.roughness10) * material.metalness
      ELSE 0

\* faulty variant: the loop breaks only when both conditions hold
BounceBreaks_Both(refl, reflectionsEnabled) == refl <= 0 /\ ~reflectionsEnabled

\* reflectivity < FLT_EPSILON || !m_ReflectionsEnabled
\* (a nonzero multiple of 1/ReflDen is above FLT_EPSILON)
BounceBreaks(refl, reflectionsEnabled) == refl <= 0 \/ ~reflectionsEnabled

\* Vector3::Reflect(v, n) = v - 2 * dot(v, n) * n
Reflect(v, n) == Vec3Sub(v, Vec3Scale(n, 2 * Dot(v, n)))

\* the lights of the scene, a point light first
LightAt(i) ==
    IF i % 2 = 1
      THEN [type |-> "Point", origin |-> <<0, 2, 0>>, direction |-> <<0, 0, 0>>,
            color |-> White, intensity |-> 2]
      ELSE [type |-> "Directional", origin |-> <<0, 0, 0>>, direction |-> Vec3Neg(UnitY),
            color |-> <<1, 0, 0>>, intensity |-> 1]

\* what the scene and the material can answer for one light at one hit:
\* pScene->DoesHit(lightRay), dot(normal, directionToLight), Material::Shade
ObservedAreas == {0 - 1, 0, 1}
BRDFValues    == {Black, White}
SurfaceNormals == {UnitY, Vec3Neg(UnitZ)}

\* the records pScene->GetClosestHit can leave for a hit of `ray`: HitTest_Sphere
\* and HitTest_Plane store the origin of the ray in hitRecord.origin
ClosestHits(ray) ==
    [didHit : {TRUE}, materialIndex : 1..Len(Materials),
     normal : {[num |-> n, den |-> 1] : n \in SurfaceNormals},
     origin : {ray.origin}, t : 1..MaxT]

\* closestHit.origin + closestHit.normal * 0.0001f: the offset is counted in eps
OffsetAlongNormal(origin, normal) ==
    [p |-> origin.p, eps |-> Vec3Add(origin.eps, normal.num)]

\* faulty variant: the ObservedArea case adds the term without testing its sign
LightTerm_NoSignTest(mode, observedArea, radianceColor, BRDF, bnc, refl, mult) ==
    CASE mode = "ObservedArea" ->
            ColorScale(<<observedArea, observedArea, observedArea>>, ColorDen)
      [] mode = "Radiance" -> ColorScale(radianceColor, ColorDen)
      [] mode = "BRDF" -> ColorScale(BRDF, ColorDen)
      [] mode = "Combined" ->
            IF bnc > 0
              THEN ColorScale(ColorMul(radianceColor, BRDF),
                              observedArea * refl * mult.num * Pow10(MaxBounces - mult.exp))
              ELSE ColorScale(ColorMul(radianceColor, BRDF), observedArea * ColorDen)

\* the term one light adds in the switch on m_CurrentLightingMode (black when
\* the case is left by continue), in units of 1/ColorDen
LightTerm(mode, observedArea, radianceColor, BRDF, bnc, refl, mult) ==
    CASE mode = "ObservedArea" ->
            IF observedArea < 0 THEN Black
            ELSE ColorScale(<<observedArea, observedArea, observedArea>>, ColorDen)
      [] mode = "Radiance" -> ColorScale(radianceColor, ColorDen)
      [] mode = "BRDF" -> ColorScale(BRDF, ColorDen)
      [] mode = "Combined" ->
            IF observedArea < 0 THEN Black
            ELSE IF bnc > 0
              THEN ColorScale(ColorMul(radianceColor, BRDF),
                              observedArea * refl * mult.num * Pow10(MaxBounces - mult.exp))
              ELSE ColorScale(ColorMul(radianceColor, BRDF), observedArea * ColorDen)

\* ColorRGB::MaxToOne then static_cast<uint8_t>(channel * 255)
Max3(c) == IF c[1] >= c[2] /\ c[1] >= c[3] THEN c[1] ELSE IF c[2] >= c[3] THEN c[2] ELSE c[3]
MaxToOne255(c) ==
    LET m == IF Max3(c) > ColorDen THEN Max3(c) ELSE ColorDen
    IN  <<(c[1] * 255) \div m, (c[2] * 255) \div m, (c[3] * 255) \div m>>

NoEval == [light |-> 0, shadowed |-> FALSE, observedArea |-> 0, BRDF |-> Black,
           radianceColor |-> Black]

PixelInit ==
    /\ ndebug \in BOOLEAN
    /\ m_Bounces \in 1..MaxBounces
    /\ m_ShadowsEnabled \in BOOLEAN
    /\ m_ReflectionsEnabled \in BOOLEAN
    /\ m_CurrentLightingMode \in LightingModes
    /\ \E n \in 0..MaxLights : lights = [i \in 1..n |-> LightAt(i)]
    /\ pixelPC = "query"
    /\ bounce = 0
    /\ lightIdx = 0
    /\ closestHit = NoHit
    /\ finalColor = Black
    /\ reflectivity = 0
    /\ multiplier = [num |-> 1, exp |-> 0]
    /\ viewRay = [origin |-> [p |-> <<0, 0, 0>>, eps |-> <<0, 0, 0>>], direction |-> UnitZ]
    /\ missed = FALSE
    /\ ev = NoEval
    /\ nQuery = 0 /\ nSky = 0 /\ nQueryAfterMiss = 0
    /\ written = <<>>
    /\ SchedAtRest
    /\ MathAtRest
    /\ ModeAtRest

\* bounce < m_Bounces; GetClosestHit finds nothing: the sky color is added and
\* the for loop goes on to bounce + 1 with the same ray
QueryMiss ==
    /\ pixelPC = "query"
    /\ bounce < m_Bounces
    /\ closestHit' = NoHit
    /\ finalColor' = ColorAdd(finalColor, ColorScale(White, ColorDen))
    /\ bounce' = bounce + 1
    /\ missed' = TRUE
    /\ nQuery' = nQuery + 1
    /\ nSky' = nSky + 1
    /\ nQueryAfterMiss' = IF missed THEN nQueryAfterMiss + 1 ELSE nQueryAfterMiss
    /\ UNCHANGED <<pixelCfg, pixelPC, lightIdx, reflectivity, multiplier, viewRay, ev, written,
                   ndebug, schedVars, mathVars, modeLog>>

\* bounce < m_Bounces; GetClosestHit finds a hit: the range-for over lights starts.
\* The scene does not change during a pass: a ray that missed misses again.
QueryHit ==
    /\ pixelPC = "query"
    /\ bounce < m_Bounces
    /\ ~missed
    /\ \E hit \in ClosestHits(viewRay) : closestHit' = hit
    /\ lightIdx' = 1
    /\ pixelPC' = IF Len(lights) = 0 THEN "tail" ELSE "light"
    /\ ev' = NoEval
    /\ nQuery' = nQuery + 1
    /\ UNCHANGED <<pixelCfg, bounce, finalColor, reflectivity, multiplier, viewRay, missed,
                   nSky, nQueryAfterMiss, written, ndebug, schedVars, mathVars, modeLog>>

\* one iteration of the range-for over lights
LightStep ==
    /\ pixelPC = "light"
    /\ \E occluded \in BOOLEAN, observedArea \in ObservedAreas, BRDF \in BRDFValues :
          LET light    == lights[lightIdx]
              shadowed == m_ShadowsEnabled /\ occluded
              radiance == GetRadiance(light, closestHit.origin)
              next     == IF lightIdx = Len(lights) THEN "tail" ELSE "light"
          IN  IF shadowed
                THEN /\ ev' = [light |-> lightIdx, shadowed |-> TRUE,
                               observedArea |-> observedArea, BRDF |-> Black,
                               radianceColor |-> Black]
                     /\ finalColor' = finalColor
                     /\ pixelPC' = next
                ELSE /\ ev' = [light |-> lightIdx, shadowed |-> FALSE,
                               observedArea |-> observedArea, BRDF |-> BRDF,
                               radianceColor |-> radiance.value]
                     /\ IF radiance.aborted
                          THEN /\ finalColor' = finalColor
                               /\ pixelPC' = "aborted"
                          ELSE /\ finalColor' =
                                    ColorAdd(finalColor,
                                             LightTerm(m_CurrentLightingMode, observedArea,
                                                       radiance.value, BRDF, bounce,
                                                       reflectivity, multiplier))
                               /\ pixelPC' = next
    /\ lightIdx' = lightIdx + 1
    /\ UNCHANGED <<pixelCfg, bounce, closestHit, reflectivity, multiplier, viewRay, missed,
                   nQuery, nSky, nQueryAfterMiss, written, ndebug, schedVars, mathVars, modeLog>>

\* after the lights of a hit: reflectivity, multiplier and the view ray are
\* updated, then the loop breaks or goes on to bounce + 1
BounceTail ==
    /\ pixelPC = "tail"
    /\ reflectivity' = GetReflectivity(Materials[closestHit.materialIndex])
    /\ multiplier' = MultiplierDecay(multiplier)
    /\ viewRay' = [origin |-> OffsetAlongNormal(closestHit.origin, closestHit.normal),
                   direction |-> Reflect(viewRay.direction, closestHit.normal.num)]
    /\ IF BounceBreaks(reflectivity', m_ReflectionsEnabled)
         THEN /\ pixelPC' = "write"
              /\ bounce' = bounce
         ELSE /\ pixelPC' = "query"
              /\ bounce' = bounce + 1
    /\ ev' = NoEval
    /\ UNCHANGED <<pixelCfg, lightIdx, closestHit, finalColor, missed,
                   nQuery, nSky, nQueryAfterMiss, written, ndebug, schedVars, mathVars, modeLog>>

\* bounce < m_Bounces is false: the loop is left
LoopExit ==
    /\ pixelPC = "query"
    /\ bounce >= m_Bounces
    /\ pixelPC' = "write"
    /\ UNCHANGED <<pixelCfg, bounce, lightIdx, closestHit, finalColor, reflectivity, multiplier,
                   viewRay, missed, ev, nQuery, nSky, nQueryAfterMiss, written,
                   ndebug, schedVars, mathVars, modeLog>>

\* finalColor.MaxToOne(); m_pBufferPixels[...] = SDL_MapRGB(...)
WriteColor ==
    /\ pixelPC = "write"
    /\ written' = MaxToOne255(finalColor)
    /\ pixelPC' = "done"
    /\ UNCHANGED <<pixelCfg, bounce, lightIdx, closestHit, finalColor, reflectivity, multiplier,
                   viewRay, missed, ev, nQuery, nSky, nQueryAfterMiss,
                   ndebug, schedVars, mathVars, modeLog>>

PixelNext ==
    \/ QueryMiss
    \/ QueryHit
    \/ LightStep
    \/ BounceTail
    \/ LoopExit
    \/ WriteColor

\* ---------------------------------------------------------------------------
\* Properties of Renderer::Render (checked under SchedSpec)
\* ---------------------------------------------------------------------------

\* C1: in one Render pass RenderPixel is invoked at most once per pixel index,
\* never for an index outside [0, m_Width*m_Height), and when the pass has
\* ended every index of that range has been invoked exactly once.
C1_EveryPixelOnce ==
    /\ \A i \in IndexDom : invoked[i] <= 1
    /\ \A i \in IndexDom : i >= m_Width * m_Height => invoked[i] = 0
    /\ renderPC = "presented" =>
          \A i \in IndexDom : i < m_Width * m_Height => invoked[i] = 1

\* a pass over a frame of at least four pixels has ended with every pixel rendered
C1_Witness ==
    /\ renderPC = "presented"
    /\ m_Width * m_Height >= 4
    /\ \A i \in 0..(m_Width * m_Height - 1) : invoked[i] = 1

\* C2: the cell RenderPixel writes is px + py*m_Width = pixelIndex, so every
\* cell is written by its own pixel index only and two workers that render
\* different pixels at the same time hold different cells.
C2_DisjointWrites ==
    /\ \A w \in Workers : wk[w].pc = "pixel" =>
          CellIndex(wk[w].px, wk[w].py, m_Width) = wk[w].pixelIndex
    /\ \A c \in IndexDom : writers[c] \subseteq {c}
    /\ \A w, v \in Workers :
          (w # v /\ wk[w].pc = "pixel" /\ wk[v].pc = "pixel"
                 /\ wk[w].pixelIndex # wk[v].pixelIndex)
          => CellIndex(wk[w].px, wk[w].py, m_Width)
               # CellIndex(wk[v].px, wk[v].py, m_Width)

\* two workers are inside RenderPixel at once, on different pixels of a frame
\* with more than one row, after some other pixel has been written
C2_Witness ==
    /\ m_Height >= 2 /\ m_Width >= 2
    /\ \E w, v \in Workers :
          /\ w # v
          /\ wk[w].pc = "pixel" /\ wk[v].pc = "pixel"
          /\ wk[w].pixelIndex # wk[v].pixelIndex
          /\ wk[w].py >= 1
    /\ \E c \in IndexDom : writers[c] # {}

\* C3: while the frame is presented no pixel index is unprocessed or being
\* processed: every pixel task of the pass has written its cell.
C3_NoPartialFrame ==
    renderPC = "presented" =>
        /\ pending = {}
        /\ \A w \in Workers : wk[w].pc = "idle"
        /\ \A i \in IndexDom : i < m_Width * m_Height => writers[i] = {i}

\* a frame of the largest size is presented
C3_Witness ==
    /\ renderPC = "presented"
    /\ m_Width = MaxWidth /\ m_Height = MaxHeight
    /\ \A i \in 0..(MaxCells - 1) : writers[i] # {}

\* ---------------------------------------------------------------------------
\* Properties of the pure functions (checked under MathSpec)
\* ---------------------------------------------------------------------------

\* C5: GetRadiance returns intensity * color / distance^2 for a point light
\* (distance from the light origin to the target, nonzero) and intensity * color
\* for a directional light; it returns, and not black.
C5_RadianceFormula ==
    mathFn = "GetRadiance" =>
        LET light  == mathArg.light
            distSq == Dot(Vec3Sub(light.origin, mathArg.target),
                          Vec3Sub(light.origin, mathArg.target))
            full   == Vec3Scale(light.color, light.intensity)
        IN  /\ (light.type = "Point" /\ distSq > 0) =>
                  /\ ~mathRes.aborted
                  /\ Vec3Scale(mathRes.value, distSq) = full
                  /\ mathRes.value # Black
            /\ light.type = "Directional" =>
                  /\ ~mathRes.aborted
                  /\ mathRes.value = full

\* C6: CreateTranslation(t).TransformPoint(p) = p + t, for the Vector3 overload
\* and for the three-scalar overload.
C6_TranslationMovesPoint ==
    mathFn \in {"CreateTranslation", "CreateTranslationXYZ"} =>
        mathRes = Vec3Add(mathArg.p, mathArg.t)

\* (the Vector3 overload alone does move the point)
TranslationVector3MovesPoint ==
    mathFn = "CreateTranslation" => mathRes = Vec3Add(mathArg.p, mathArg.t)

\* the ray of a HitTest_Sphere call starts outside the sphere and points
\* straight at its centre
HeadOn(sphere, ray) ==
    LET tc == Vec3Sub(sphere.origin, ray.origin)
    IN  /\ Vec3Scale(ray.direction, Dot(tc, ray.direction)) = tc
        /\ Dot(tc, ray.direction) > sphere.radius

\* C7: for a ray from outside aimed at the centre C (and a hit distance inside
\* the ray's interval) HitTest_Sphere reports a hit with t = |origin - C| - r
\* and with the outward normal normalize(hitPoint - C), hitPoint = origin + t*d.
C7_SphereHeadOnHit ==
    (mathFn = "HitTest_Sphere" /\ ~mathArg.ignoreHitRecord
        /\ HeadOn(mathArg.sphere, mathArg.ray)
        /\ TInterval(mathArg.ray,
                     Dot(Vec3Sub(mathArg.sphere.origin, mathArg.ray.origin),
                         mathArg.ray.direction) - mathArg.sphere.radius))
    => LET sphere   == mathArg.sphere
           ray      == mathArg.ray
           dist     == Dot(Vec3Sub(sphere.origin, ray.origin), ray.direction)
           hit      == mathRes.hitRecord
           hitPoint == Vec3Add(ray.origin, Vec3Scale(ray.direction, hit.t))
       IN  /\ mathRes.ret
           /\ hit.didHit
           /\ hit.t = dist - sphere.radius
           /\ hit.normal = Normalized(Vec3Sub(hitPoint, sphere.origin))

\* (the hit and its distance alone are as stated)
SphereHeadOnDistance ==
    (mathFn = "HitTest_Sphere" /\ ~mathArg.ignoreHitRecord
        /\ HeadOn(mathArg.sphere, mathArg.ray)
        /\ TInterval(mathArg.ray,
                     Dot(Vec3Sub(mathArg.sphere.origin, mathArg.ray.origin),
                         mathArg.ray.direction) - mathArg.sphere.radius))
    => /\ mathRes.ret
       /\ mathRes.hitRecord.didHit
       /\ mathRes.hitRecord.t
            = Dot(Vec3Sub(mathArg.sphere.origin, mathArg.ray.origin),
                  mathArg.ray.direction) - mathArg.sphere.radius

\* C12: the shadow ray of a light at a hit starts at the hit point
\* ray.origin + t * ray.direction, offset along the hit normal by the epsilon,
\* with the interval [0, lightDistance], lightDistance the distance from the hit
\* point to the light; the direction to the light and the radiance are
\* evaluated at the hit point too.  (Distances are compared by their squares.)
C12_ShadowRayFromHitPoint ==
    mathFn = "LightRay" =>
        LET ray      == mathArg.ray
            light    == mathArg.light
            hit      == mathRes.closestHit
            lightRay == mathRes.lightRay
            hitPoint == Vec3Add(ray.origin, Vec3Scale(ray.direction, hit.t))
            toLight  == Vec3Sub(light.origin, hitPoint)
        IN  /\ lightRay.origin = [p |-> hitPoint, normal |-> hit.normal]
            /\ lightRay.min = 0
            /\ lightRay.radianceTarget = hitPoint
            /\ light.type = "Point" =>
                  /\ ~lightRay.max.inf
                  /\ Square(lightRay.max.v) = Dot(toLight, toLight)
                  /\ lightRay.direction.num = toLight

\* (what holds instead: the ray starts at the origin of the view ray, offset
\* along the hit normal, and the distance, the direction and the radiance
\* target are taken from the origin of the view ray)
ShadowRayFromRayOrigin ==
    mathFn = "LightRay" =>
        LET ray      == mathArg.ray
            light    == mathArg.light
            hit      == mathRes.closestHit
            lightRay == mathRes.lightRay
            toLight  == Vec3Sub(light.origin, ray.origin)
        IN  /\ hit.t > 0
            /\ lightRay.origin = [p |-> ray.origin, normal |-> hit.normal]
            /\ lightRay.min = 0
            /\ lightRay.radianceTarget = ray.origin
            /\ light.type = "Point" =>
                  /\ ~lightRay.max.inf
                  /\ Square(lightRay.max.v) = Dot(toLight, toLight)
                  /\ lightRay.direction.num = toLight

\* ---------------------------------------------------------------------------
\* Renderer::CycleLightingMode (ModeSpec)
\* ---------------------------------------------------------------------------
MaxCycles == 8

\* faulty variant: the Radiance case goes straight to Combined
CycleLightingMode_SkipBRDF(mode) ==
    CASE mode = "ObservedArea" -> "Radiance"
      [] mode = "Radiance"     -> "Combined"
      [] mode = "BRDF"         -> "Combined"
      [] mode = "Combined"     -> "ObservedArea"

\* switch (m_CurrentLightingMode): the value assigned in each case
CycleLightingMode(mode) ==
    CASE mode = "ObservedArea" -> "Radiance"
      [] mode = "Radiance"     -> "BRDF"
      [] mode = "BRDF"         -> "Combined"
      [] mode = "Combined"     -> "ObservedArea"

\* a renderer between frames, in any of its settings
ModeInit ==
    /\ ndebug \in BOOLEAN
    /\ m_Bounces \in 1..MaxBounces
    /\ m_ShadowsEnabled \in BOOLEAN
    /\ m_ReflectionsEnabled \in BOOLEAN
    /\ m_CurrentLightingMode \in LightingModes
    /\ modeLog = <<m_CurrentLightingMode>>
    /\ lights = <<>>
    /\ pixelPC = "done" /\ bounce = 0 /\ lightIdx = 0 /\ closestHit = <<>>
    /\ finalColor = <<0, 0, 0>> /\ reflectivity = 0 /\ multiplier = <<>>
    /\ viewRay = <<>> /\ missed = FALSE /\ ev = <<>>
    /\ nQuery = 0 /\ nSky = 0 /\ nQueryAfterMiss = 0 /\ written = <<>>
    /\ SchedAtRest
    /\ MathAtRest

\* one call of Renderer::CycleLightingMode
CycleLightingModeCall ==
    /\ Len(modeLog) <= MaxCycles
    /\ m_CurrentLightingMode' = CycleLightingMode(m_CurrentLightingMode)
    /\ modeLog' = Append(modeLog, m_CurrentLightingMode')
    /\ UNCHANGED <<m_Bounces, m_ShadowsEnabled, m_ReflectionsEnabled, lights, pixelPC, bounce,
                   lightIdx, closestHit, finalColor, reflectivity, multiplier, viewRay,
                   missed, ev, nQuery, nSky, nQueryAfterMiss, written,
                   ndebug, schedVars, mathVars>>

ModeNext == CycleLightingModeCall

vars == <<schedVars, ndebug, mathVars, pixelVars, modeLog>>

SchedSpec == SchedInit /\ [][SchedNext]_vars
MathSpec  == MathInit /\ [][MathNext]_vars
ModeSpec  == ModeInit /\ [][ModeNext]_vars
PixelSpec == PixelInit /\ [][PixelNext]_vars

\* ---------------------------------------------------------------------------
\* Properties of Renderer::RenderPixel (checked under PixelSpec)
\* ---------------------------------------------------------------------------

\* the light evaluated by a LightStep is lit: it has intensity and color, it
\* faces the surface and the material answers a BRDF that is not black
LitLight(e) ==
    /\ lights[e.light].intensity > 0
    /\ lights[e.light].color # Black
    /\ e.observedArea > 0
    /\ e.BRDF # Black

\* C4: a light whose shadow ray is occluded while shadows are enabled adds
\* exactly zero to the accumulated color in every lighting mode, and a lit
\* light whose shadow ray is not occluded does contribute.
LightStepAsClaimed ==
    pixelPC = "light" =>
        /\ ev'.shadowed => finalColor' = finalColor
        /\ (~ev'.shadowed /\ LitLight(ev')) =>
              (pixelPC' # "aborted" /\ finalColor' # finalColor)
C4_ShadowedAddsZeroOthersContribute == [][LightStepAsClaimed]_vars

\* (the first half alone: the occluded light adds zero in every mode)
ShadowedLightAddsZero ==
    [][(pixelPC = "light" /\ ev'.shadowed) =>
          (finalColor' = finalColor /\ pixelPC' # "aborted")]_vars

\* C8: the sky color is added at most once per pixel and no closest-hit query
\* is made after a query that found nothing.
C8_SkyOnceThenStop ==
    /\ nSky <= 1
    /\ nQueryAfterMiss = 0

\* C9: an unshadowed light with a negative observed area leaves the accumulated
\* color unchanged in every lighting mode except Radiance.
C9_NegativeAreaDiscarded ==
    [][(pixelPC = "light" /\ ~ev'.shadowed /\ ev'.observedArea < 0
          /\ m_CurrentLightingMode # "Radiance")
       => finalColor' = finalColor]_vars

\* C9 as amended: an unshadowed light with a negative observed area leaves the
\* accumulated color unchanged in the ObservedArea and Combined modes.
C9_NegativeAreaDiscardedWhereUsed ==
    [][(pixelPC = "light" /\ ~ev'.shadowed /\ ev'.observedArea < 0
          /\ m_CurrentLightingMode \in {"ObservedArea", "Combined"})
       => finalColor' = finalColor]_vars

\* in ObservedArea mode a light that faces away has been evaluated (unshadowed,
\* without abort) after another light had contributed
C9_Witness ==
    /\ m_CurrentLightingMode = "ObservedArea"
    /\ pixelPC = "tail"
    /\ ev.light = 2
    /\ ~ev.shadowed
    /\ ev.observedArea < 0
    /\ finalColor = ColorScale(White, ColorDen)

\* C10: after the lights of a hit the loop stops when the reflectivity of the
\* hit material is zero or reflections are disabled, and no scene query
\* follows; otherwise it goes on with the reflected ray at bounce + 1; and no
\* pixel makes more than m_Bounces closest-hit queries (one per iteration).
TailStepAsClaimed ==
    pixelPC = "tail" =>
        LET material == Materials[closestHit.materialIndex]
            refl     == IF material.kind = "CookTorrence"
                          THEN (10 - material.roughness10) * material.metalness
                          ELSE 0
        IN  /\ reflectivity' = refl
            /\ IF refl = 0 \/ ~m_ReflectionsEnabled
                 THEN pixelPC' = "write"
                 ELSE /\ pixelPC' = "query"
                      /\ bounce' = bounce + 1
                      /\ viewRay'.direction
                           = Reflect(viewRay.direction, closestHit.normal.num)
NoQueryOnceStopped ==
    pixelPC \in {"write", "done"} =>
        (nQuery' = nQuery /\ pixelPC' \in {"write", "done"})
C10_BounceLoopStops ==
    /\ [](nQuery <= m_Bounces /\ bounce <= m_Bounces)
    /\ [][TailStepAsClaimed]_vars
    /\ [][NoQueryOnceStopped]_vars

\* with room for three bounces the loop went on after a reflective first hit
\* and stopped at a second hit on a material without reflectivity
C10_Witness ==
    /\ pixelPC = "write"
    /\ m_Bounces = 3
    /\ m_ReflectionsEnabled
    /\ ~missed
    /\ nQuery = 2
    /\ bounce = 1
    /\ reflectivity = 0

\* C11: in Combined mode a light adds radiance * BRDF * observedArea at bounce
\* 0, and at bounce k >= 1 that product times the reflectivity of the material
\* hit at bounce k - 1 and times the multiplier, which is 1 at bounce 0 and is
\* multiplied by 0.7 once per processed hit (0.7^k at bounce k).  Stated for a
\* light that is evaluated (not shadowed) with an observed area that is not
\* negative.
CombinedStepAsClaimed ==
    (pixelPC = "light" /\ m_CurrentLightingMode = "Combined" /\ pixelPC' # "aborted"
        /\ ~ev'.shadowed /\ ev'.observedArea >= 0)
    => LET product == ColorScale(ColorMul(ev'.radianceColor, ev'.BRDF), ev'.observedArea)
           factor  == IF bounce = 0
                        THEN ColorDen
                        ELSE reflectivity * Pow7(bounce) * Pow10(MaxBounces - bounce)
       IN  finalColor' = ColorAdd(finalColor, ColorScale(product, factor))
CarriedReflectivityAsClaimed ==
    /\ (pixelPC = "query" /\ pixelPC' \in {"light", "tail"} /\ bounce >= 1) =>
          LET material == Materials[closestHit.materialIndex]
          IN  reflectivity' = IF material.kind = "CookTorrence"
                                THEN (10 - material.roughness10) * material.metalness
                                ELSE 0
    /\ pixelPC = "light" => (reflectivity' = reflectivity /\ multiplier' = multiplier)
ModeOrder == <<"ObservedArea", "Radiance", "BRDF", "Combined">>
ModeAfter(mode) ==
    LET i == CHOOSE k \in 1..4 : ModeOrder[k] = mode
    IN  ModeOrder[(i % 4) + 1]

\* C13: the lighting mode is always one of ObservedArea, Radiance, BRDF and
\* Combined; each CycleLightingMode call advances it in the order ObservedArea
\* -> Radiance -> BRDF -> Combined -> ObservedArea; so four consecutive calls
\* return to the mode they started from, and any three consecutive calls
\* together with their starting mode pass through every mode.
C13_ModeCycle ==
    /\ m_CurrentLightingMode \in {"ObservedArea", "Radiance", "BRDF", "Combined"}
    /\ m_CurrentLightingMode = modeLog[Len(modeLog)]
    /\ \A i \in 1..Len(modeLog) :
          /\ modeLog[i] \in {"ObservedArea", "Radiance", "BRDF", "Combined"}
          /\ i + 1 <= Len(modeLog) => modeLog[i + 1] = ModeAfter(modeLog[i])
          /\ i + 4 <= Len(modeLog) => modeLog[i + 4] = modeLog[i]
          /\ i + 3 <= Len(modeLog) =>
                {modeLog[j] : j \in i..(i + 3)}
                    = {"ObservedArea", "Radiance", "BRDF", "Combined"}

\* starting in BRDF, four calls went through Combined, ObservedArea and
\* Radiance and came back to BRDF, and a fifth call followed
C13_Witness ==
    /\ Len(modeLog) >= 6
    /\ modeLog[1] = "BRDF"
    /\ modeLog[3] = "ObservedArea"
    /\ modeLog[5] = "BRDF"
    /\ m_CurrentLightingMode = modeLog[Len(modeLog)]

====
